---- MODULE Spec2Model ----
(***************************************************************************)
(* A model of quart/static.py: the PackageStatic component (root           *)
(* resolution, static folder configuration), safe_join, and the            *)
(* send_static_file / send_from_directory / send_file pipeline running as  *)
(* concurrent tasks over a file system another actor may change.           *)
(*                                                                         *)
(* Path strings are TLA+ strings, handled character by character with      *)
(* Len, SubSeq and \o, so that str.startswith, str.split and the           *)
(* pathlib / os.path conversions are computed as the library computes them.*)
(***************************************************************************)
EXTENDS Integers, Sequences, FiniteSets, TLC

VARIABLES
    links,      \* the symbolic links of the file system: a set of <<link, target>>
    cwd,        \* os.getcwd()
    join,       \* one call of safe_join: its arguments and its outcome
    env,        \* what the interpreter knows about import_name (sys.modules, loaders)
    comp,       \* the PackageStatic object
    nAssign,    \* number of property assignments made on comp so far
    fs,         \* the files and directories: path string -> kind and content
    nFsOps,     \* number of changes the concurrent actor made to fs so far
    tasks       \* the in-flight calls of send_static_file / send_from_directory

vars == <<links, cwd, join, env, comp, nAssign, fs, nFsOps, tasks>>

(***************************************************************************)
(* Bounds of the model.                                                    *)
(***************************************************************************)
MaxSegs == 3        \* most untrusted segments passed to one safe_join call
MaxAssign == 3      \* most property assignments on one component
MaxFsOps == 2       \* most changes by the concurrent file-system actor

(***************************************************************************)
(* Strings.                                                                *)
(***************************************************************************)
SEP == "/"

\* str.startswith
StartsWith(s, p) == Len(p) <= Len(s) /\ SubSeq(s, 1, Len(p)) = p

\* index of the first SEP in s, or 0
RECURSIVE FindSep(_, _)
FindSep(s, i) ==
    IF i > Len(s) THEN 0
    ELSE IF SubSeq(s, i, i) = SEP THEN i
    ELSE FindSep(s, i + 1)

\* index of the last SEP in s, or 0
RECURSIVE RFindSep(_, _)
RFindSep(s, i) ==
    IF i < 1 THEN 0
    ELSE IF SubSeq(s, i, i) = SEP THEN i
    ELSE RFindSep(s, i - 1)

\* str.split(SEP): "" gives <<"">>, "a//b" gives <<"a", "", "b">>
RECURSIVE Split(_)
Split(s) ==
    LET i == FindSep(s, 1)
    IN  IF i = 0 THEN <<s>>
        ELSE <<SubSeq(s, 1, i - 1)>> \o Split(SubSeq(s, i + 1, Len(s)))

\* SEP.join(names)
RECURSIVE JoinSep(_)
JoinSep(names) ==
    IF names = <<>> THEN ""
    ELSE IF Len(names) = 1 THEN names[1]
    ELSE names[1] \o SEP \o JoinSep(Tail(names))

\* str.lstrip(SEP)
RECURSIVE LStrip(_)
LStrip(s) ==
    IF Len(s) > 0 /\ SubSeq(s, 1, 1) = SEP THEN LStrip(SubSeq(s, 2, Len(s))) ELSE s

\* str.rpartition(SEP)[0]
RPartitionHead(s) ==
    LET i == RFindSep(s, Len(s))
    IN  IF i = 0 THEN "" ELSE SubSeq(s, 1, i - 1)

\* str.rpartition(SEP)[2] when SEP occurs, else the whole string
RPartitionTail(s) ==
    LET i == RFindSep(s, Len(s))
    IN  SubSeq(s, i + 1, Len(s))

IsName(x) == x # "" /\ x # "."

(***************************************************************************)
(* pathlib.Path(directory, *paths): the posix flavour's parse_parts.  A    *)
(* part that starts with SEP restarts the path; empty and "." names are    *)
(* dropped, ".." is kept.  Exactly two leading separators give root "//".  *)
(***************************************************************************)
SplitRoot(part) ==
    IF Len(part) > 0 /\ SubSeq(part, 1, 1) = SEP
    THEN LET stripped == LStrip(part)
         IN  [root |-> IF Len(part) - Len(stripped) = 2 THEN "//" ELSE "/",
              rel  |-> stripped]
    ELSE [root |-> "", rel |-> part]

RECURSIVE ParseParts(_, _)
ParseParts(acc, parts) ==
    IF parts = <<>> THEN acc
    ELSE LET part == Head(parts)
             sr   == SplitRoot(part)
             ns   == SelectSeq(Split(sr.rel), IsName)
         IN  IF part = "" THEN ParseParts(acc, Tail(parts))
             ELSE IF sr.root # ""
                  THEN ParseParts([root |-> sr.root, names |-> ns], Tail(parts))
                  ELSE ParseParts([root |-> acc.root, names |-> acc.names \o ns],
                                  Tail(parts))

Path(parts) == ParseParts([root |-> "", names |-> <<>>], parts)

\* str(path)
PathStr(p) ==
    IF p.root = "" /\ p.names = <<>> THEN "."
    ELSE p.root \o JoinSep(p.names)

(***************************************************************************)
(* Path.resolve() (not strict): walks the names, follows every symbolic    *)
(* link it meets, pops one name for "..", and never fails on a path that   *)
(* does not exist.                                                         *)
(***************************************************************************)
IsLink(p) == \E e \in links : e[1] = p
ReadLink(p) == (CHOOSE e \in links : e[1] = p)[2]

RECURSIVE ResolveNames(_, _)
ResolveNames(path, names) ==
    IF names = <<>> THEN path
    ELSE LET name    == Head(names)
             newpath == path \o SEP \o name
         IN  IF ~IsName(name) THEN ResolveNames(path, Tail(names))
             ELSE IF name = ".." THEN ResolveNames(RPartitionHead(path), Tail(names))
             ELSE IF IsLink(newpath)
                  THEN LET target == ReadLink(newpath)
                           start  == IF StartsWith(target, SEP) THEN "" ELSE path
                       IN  ResolveNames(ResolveNames(start, Split(target)), Tail(names))
                  ELSE ResolveNames(newpath, Tail(names))

Resolve(p) ==
    LET s    == PathStr(p)
        base == IF p.root # "" THEN "" ELSE cwd
        r    == ResolveNames(IF StartsWith(s, SEP) THEN "" ELSE base, Split(s))
    IN  IF r = "" THEN SEP ELSE r

(***************************************************************************)
(* safe_join                                                               *)
(***************************************************************************)
NotFound == [kind |-> "NotFound", path |-> ""]
Resolved(p) == [kind |-> "path", path |-> p]

\* a mutation of the containment test: the base itself is not accepted
ContainedProperly(full_path, safe_path) ==
    Len(safe_path) < Len(full_path) /\ StartsWith(full_path, safe_path)

\* str(full_path).startswith(str(safe_path))
Contained(full_path, safe_path) == StartsWith(full_path, safe_path)

\* a mutation of safe_join: the containment check left out
safe_join_unchecked(directory, paths) ==
    Resolved(Resolve(Path(<<directory>> \o paths)))

safe_join(directory, paths) ==
    LET safe_path == Resolve(Path(<<directory>>))
        full_path == Resolve(Path(<<directory>> \o paths))
    IN  IF ~Contained(full_path, safe_path) THEN NotFound ELSE Resolved(full_path)

(***************************************************************************)
(* Path-component view of a canonical path string, used to state           *)
(* containment on component sequences.                                     *)
(***************************************************************************)
NonEmpty(x) == x # ""
Components(s) == SelectSeq(Split(s), NonEmpty)
IsPrefixSeq(a, b) == Len(a) <= Len(b) /\ SubSeq(b, 1, Len(a)) = a

SeqsUpTo(S, n) == UNION {[1..k -> S] : k \in 0..n}

(***************************************************************************)
(* Values the variables hold while the part of the program they belong to  *)
(* is not exercised.                                                       *)
(***************************************************************************)
None == [some |-> FALSE, v |-> ""]
Some(s) == [some |-> TRUE, v |-> s]

NoJoin == [pc |-> "none", directory |-> "", paths |-> <<>>, res |-> NotFound]
NoEnv == [import_name |-> "", module |-> "absent", file |-> "", loader |-> "None",
          loader_file |-> "", arg |-> None]
NoComp == [state |-> "none", root_path |-> "", _static_folder |-> None,
           _static_url_path |-> None, exc |-> "", root0 |-> "",
           folderSet |-> FALSE, urlSet |-> FALSE]

(***************************************************************************)
(* The specification of safe_join as a function of its arguments, the      *)
(* symbolic links and the working directory.                               *)
(***************************************************************************)
JoinDirs == {"/", "/etc", "/etc/p", "/a", "/a/b", "/a/l", "b", "/a/b/"}
JoinSegs == {"..", "etc/passwd", "", ".", "x", "../b-evil/x", "/a/b/x", "out"}
JoinLinks == { {},
               { <<"/a/l", "/a/b">>, <<"/a/b/out", "../../c">> } }

InitJoin ==
    /\ links \in JoinLinks
    /\ cwd = "/a"
    /\ \E d \in JoinDirs, ps \in SeqsUpTo(JoinSegs, MaxSegs) :
          join = [pc |-> "call", directory |-> d, paths |-> ps, res |-> NotFound]
    /\ env = NoEnv
    /\ comp = NoComp
    /\ nAssign = 0
    /\ fs = <<>>
    /\ nFsOps = 0
    /\ tasks = <<>>

SafeJoin ==
    /\ join.pc = "call"
    /\ join' = [join EXCEPT !.pc = "done",
                            !.res = safe_join(join.directory, join.paths)]
    /\ UNCHANGED <<links, cwd, env, comp, nAssign, fs, nFsOps, tasks>>

NextJoin == SafeJoin

SpecJoin == InitJoin /\ [][NextJoin]_vars

\* the canonical base and candidate of the call in join
JoinBase == Resolve(Path(<<join.directory>>))
JoinCandidate == Resolve(Path(<<join.directory>> \o join.paths))

(***************************************************************************)
(* C1: safe_join fails with NotFound whenever the canonical candidate lies *)
(* in a sibling directory whose name merely shares a string prefix with    *)
(* the canonical base: containment is decided on path components.          *)
(***************************************************************************)
C1_SiblingPrefixRejected ==
    (/\ join.pc = "done"
     /\ StartsWith(JoinCandidate, JoinBase)
     /\ ~IsPrefixSeq(Components(JoinBase), Components(JoinCandidate)))
    => join.res = NotFound

(***************************************************************************)
(* C3: when the canonical candidate is the canonical base or a descendant  *)
(* of it, safe_join does not signal NotFound and returns the canonical     *)
(* candidate, whose components have the base's components as a prefix.     *)
(***************************************************************************)
C3_DescendantResolved ==
    (/\ join.pc = "done"
     /\ IsPrefixSeq(Components(JoinBase), Components(JoinCandidate)))
    => /\ join.res = Resolved(JoinCandidate)
       /\ IsPrefixSeq(Components(JoinBase), Components(join.res.path))

\* C3's case: a filename with "." and ".." that canonicalises to the base itself
C3_Witness ==
    /\ join.pc = "done"
    /\ join.directory = "/a/b"
    /\ join.paths = <<"x", "..", ".">>
    /\ join.res = Resolved("/a/b")

(***************************************************************************)
(* C2 as claimed: for every base directory,                                *)
(* safe_join(directory, "..", "..", "etc/passwd") signals NotFound.        *)
(***************************************************************************)
EtcPasswdCall == join.pc = "done" /\ join.paths = <<"..", "..", "etc/passwd">>

os_path_isabs(p) == StartsWith(p, SEP)

os_path_join(a, b) ==
    IF StartsWith(b, SEP) THEN b
    ELSE IF a = "" \/ SubSeq(a, Len(a), Len(a)) = SEP THEN a \o b
    ELSE a \o SEP \o b

os_path_basename(p) == RPartitionTail(p)

\* str.rstrip(SEP)
RECURSIVE RStrip(_)
RStrip(s) ==
    IF Len(s) > 0 /\ SubSeq(s, Len(s), Len(s)) = SEP
    THEN RStrip(SubSeq(s, 1, Len(s) - 1)) ELSE s

os_path_dirname(p) ==
    LET head == SubSeq(p, 1, RFindSep(p, Len(p)))
    IN  IF head # "" /\ RStrip(head) # "" THEN RStrip(head) ELSE head

RECURSIVE NormNames(_, _, _)
NormNames(comps, acc, rooted) ==
    IF comps = <<>> THEN acc
    ELSE LET c == Head(comps)
         IN  IF ~IsName(c) THEN NormNames(Tail(comps), acc, rooted)
             ELSE IF \/ c # ".."
                     \/ (~rooted /\ acc = <<>>)
                     \/ (acc # <<>> /\ acc[Len(acc)] = "..")
                  THEN NormNames(Tail(comps), Append(acc, c), rooted)
                  ELSE IF acc # <<>>
                       THEN NormNames(Tail(comps), SubSeq(acc, 1, Len(acc) - 1), rooted)
                       ELSE NormNames(Tail(comps), acc, rooted)

os_path_normpath(path) ==
    LET slashes == IF ~StartsWith(path, SEP) THEN ""
                   ELSE IF StartsWith(path, "//") /\ ~StartsWith(path, "///")
                        THEN "//" ELSE "/"
        r == slashes \o JoinSep(NormNames(Split(path), <<>>, slashes # ""))
    IN  IF r = "" THEN "." ELSE r

os_path_abspath(path) ==
    os_path_normpath(IF os_path_isabs(path) THEN path ELSE os_path_join(cwd, path))

(***************************************************************************)
(* PackageStatic._find_root_path.  env.module is sys.modules.get of the    *)
(* import name: "absent", "nofile" (a module without __file__) or "file"   *)
(* (env.file is its __file__).  env.loader is pkgutil.get_loader's answer: *)
(* "None", "file" (get_filename gives env.loader_file) or "nofilename"     *)
(* (a loader without get_filename, as the built-in importer is).           *)
(***************************************************************************)
RootOk(p) == [kind |-> "ok", path |-> p, exc |-> ""]
RootRaised(x) == [kind |-> "raised", path |-> "", exc |-> x]

_find_root_path(e) ==
    IF e.arg.some THEN RootOk(e.arg.v)
    ELSE IF e.module = "file"
         THEN RootOk(os_path_dirname(os_path_abspath(e.file)))
         ELSE IF e.loader = "None" \/ e.import_name = "__main__"
              THEN RootOk(cwd)
              ELSE IF e.loader = "nofilename"
                   THEN RootRaised("AttributeError")
                   ELSE RootOk(os_path_dirname(os_path_abspath(e.loader_file)))

(***************************************************************************)
(* PackageStatic: the constructor, the two property setters and the        *)
(* derived properties.  root0, folderSet and urlSet record the history the *)
(* claims speak about; the program does not read them.                     *)
(***************************************************************************)
static_folder(c) ==
    IF c._static_folder.some
    THEN Some(os_path_join(c.root_path, c._static_folder.v))
    ELSE None

static_url_path(c) ==
    IF c._static_url_path.some THEN c._static_url_path
    ELSE IF static_folder(c).some
         THEN Some("/" \o os_path_basename(static_folder(c).v))
         ELSE None

\* a mutation of has_static_folder: the object, not its static folder, is tested
has_static_folder_of_object(c) == c.state = "ready"

has_static_folder(c) == static_folder(c).some

Construct ==
    /\ comp.state = "none"
    /\ LET r == _find_root_path(env)
       IN  comp' = IF r.kind = "ok"
                   THEN [NoComp EXCEPT !.state = "ready", !.root_path = r.path,
                                       !.root0 = r.path]
                   ELSE [NoComp EXCEPT !.state = "failed", !.exc = r.exc]
    /\ UNCHANGED <<links, cwd, join, env, nAssign, fs, nFsOps, tasks>>

SetStaticFolder(v) ==
    /\ comp.state = "ready"
    /\ nAssign < MaxAssign
    /\ comp' = [comp EXCEPT !._static_folder = Some(v), !.folderSet = TRUE]
    /\ nAssign' = nAssign + 1
    /\ UNCHANGED <<links, cwd, join, env, fs, nFsOps, tasks>>

SetStaticUrlPath(v) ==
    /\ comp.state = "ready"
    /\ nAssign < MaxAssign
    /\ comp' = [comp EXCEPT !._static_url_path = Some(v), !.urlSet = TRUE]
    /\ nAssign' = nAssign + 1
    /\ UNCHANGED <<links, cwd, join, env, fs, nFsOps, tasks>>

ImportNames == {"app", "__main__"}
ModuleFiles == {"/s/app.py", "pkg/../run.py"}
RootArgs == {None, Some("/opt/r"), Some("")}
FolderValues == {"static", "static/", "assets/css", "/srv/st"}
UrlValues == {"/assets"}

Envs ==
    { e \in [import_name : ImportNames,
             module      : {"absent", "nofile", "file"},
             file        : ModuleFiles \cup {""},
             loader      : {"None", "file", "nofilename"},
             loader_file : ModuleFiles \cup {""},
             arg         : RootArgs] :
        /\ (e.module = "file") <=> (e.file # "")
        /\ (e.loader = "file") <=> (e.loader_file # "")
        /\ e.import_name = "__main__" => e.module # "absent" }

InitComp ==
    /\ links = {}
    /\ cwd = "/w"
    /\ join = NoJoin
    /\ env \in Envs
    /\ comp = NoComp
    /\ nAssign = 0
    /\ fs = <<>>
    /\ nFsOps = 0
    /\ tasks = <<>>

NextComp ==
    \/ Construct
    \/ \E v \in FolderValues : SetStaticFolder(v)
    \/ \E v \in UrlValues : SetStaticUrlPath(v)

SpecComp == InitComp /\ [][NextComp]_vars

(***************************************************************************)
(* C9: root resolution never raises and always yields a directory path: an *)
(* explicit override unchanged; otherwise, for an identifier with an       *)
(* on-disk location, the absolute directory containing it; and for an      *)
(* identifier that cannot be located, has no on-disk location or is the    *)
(* entry-point identifier "__main__", the current working directory.       *)
(* Read in the code's favour where the claim's cases overlap: a loaded     *)
(* module that has a file counts as located, whatever its name.            *)
(***************************************************************************)
C9_RootNeverRaises ==
    comp.state # "none" =>
        /\ comp.state = "ready"
        /\ env.arg.some => comp.root0 = env.arg.v
        /\ (~env.arg.some /\ env.module = "file")
              => comp.root0 = os_path_dirname(os_path_abspath(env.file))
        /\ (~env.arg.some /\ env.module # "file" /\ env.import_name = "__main__")
              => comp.root0 = cwd
        /\ (~env.arg.some /\ env.module # "file" /\ env.import_name # "__main__"
              /\ env.loader = "file")
              => comp.root0 = os_path_dirname(os_path_abspath(env.loader_file))
        /\ (~env.arg.some /\ env.module # "file" /\ env.loader # "file")
              => comp.root0 = cwd

(***************************************************************************)
(* C10: after any sequence of static_folder and static_url_path            *)
(* assignments, the static folder is absent exactly when the sub-path was  *)
(* never set and is otherwise the root joined with the sub-path;           *)
(* static_url_path is the override if one was set, else "/" followed by    *)
(* the final, non-empty path segment of the static folder (also when the   *)
(* sub-path ends with a separator), else absent; the root never changes.   *)
(***************************************************************************)
FinalSegment(p) ==
    LET cs == Components(p) IN IF cs = <<>> THEN "" ELSE cs[Len(cs)]

C10_StaticConfig ==
    comp.state = "ready" =>
        /\ static_folder(comp).some <=> comp.folderSet
        /\ comp.folderSet =>
              static_folder(comp).v = os_path_join(comp.root0, comp._static_folder.v)
        /\ comp.urlSet => static_url_path(comp) = comp._static_url_path
        /\ (~comp.urlSet /\ comp.folderSet) =>
              /\ FinalSegment(static_folder(comp).v) # ""
              /\ static_url_path(comp) = Some("/" \o FinalSegment(static_folder(comp).v))
        /\ (~comp.urlSet /\ ~comp.folderSet) => static_url_path(comp) = None
        /\ comp.root_path = comp.root0

(***************************************************************************)
(* The file system.  A path that fs does not list does not exist.  Content *)
(* is a sequence of bytes.                                                 *)
(***************************************************************************)
Absent == [kind |-> "absent", data |-> <<>>, readable |-> FALSE]
Dir == [kind |-> "dir", data |-> <<>>, readable |-> TRUE]
File(b) == [kind |-> "file", data |-> b, readable |-> TRUE]

FsAt(p) == IF p \in DOMAIN fs THEN fs[p] ELSE Absent

\* os.path.isfile
os_path_isfile(p) == FsAt(p).kind = "file"

(***************************************************************************)
(* mimetypes.guess_type(name)[0]: the type of the extension that           *)
(* posixpath.splitext finds (a leading dot starts no extension), None      *)
(* when the table has no entry.  Encoding suffixes are not modelled.       *)
(***************************************************************************)
DEFAULT_MIMETYPE == "application/octet-stream"

RECURSIVE RFindDot(_, _)
RFindDot(s, i) ==
    IF i < 1 THEN 0
    ELSE IF SubSeq(s, i, i) = "." THEN i
    ELSE RFindDot(s, i - 1)

RECURSIVE OnlyDots(_)
OnlyDots(s) == s = "" \/ (SubSeq(s, 1, 1) = "." /\ OnlyDots(SubSeq(s, 2, Len(s))))

SplitExt(name) ==
    LET dot == RFindDot(name, Len(name))
        sep == RFindSep(name, Len(name))
    IN  IF dot > sep /\ ~OnlyDots(SubSeq(name, sep + 1, dot - 1))
        THEN SubSeq(name, dot, Len(name)) ELSE ""

GuessType(name) ==
    LET ext == SplitExt(name)
    IN  IF ext = ".html" THEN Some("text/html")
        ELSE IF ext = ".txt" THEN Some("text/plain")
        ELSE None

\* a mutation of the content type choice: no default
MimeNoDefault(filename) == GuessType(os_path_basename(filename)).v

\* send_file's content type
Mime(filename) ==
    LET g == GuessType(os_path_basename(filename))
    IN  IF g.some /\ g.v # "" THEN g.v ELSE DEFAULT_MIMETYPE

(***************************************************************************)
(* Outcomes of a call.                                                     *)
(***************************************************************************)
NoResult == [kind |-> "none", body |-> <<>>, mimetype |-> ""]
Raised(x) == [kind |-> x, body |-> <<>>, mimetype |-> ""]
Response(data, mimetype) == [kind |-> "Response", body |-> data, mimetype |-> mimetype]

\* a mutation: a failed open reported as a missing file
OpenFailureAsNotFound == "NotFound"

\* what a failed open raises: an OSError, which is not the NotFound exception
OpenFailure == "IOError"

\* a mutation of the scoped acquisition: the handle stays open on cancellation
ExitHandleLeakOnCancel(pending) == IF pending = "Cancelled" THEN "open" ELSE "closed"

\* async with: the handle is closed however the body was left
ExitHandle(pending) == "closed"

(***************************************************************************)
(* The calls.  Each task runs one call of send_static_file or of           *)
(* send_from_directory.  The steps are the places where the call touches   *)
(* the file system or is suspended: the join, the isfile check, the open,  *)
(* the read and the exit of the async with block.  Cancellation is         *)
(* delivered at the read, the suspension point of the call.  nJoin,        *)
(* nIsFile, nOpen, seen, raced and ioFailed record history for the claims. *)
(***************************************************************************)
Tasks == {"t1", "t2"}

IdleTask == [pc |-> "idle", api |-> "", directory |-> "", file_name |-> "",
             file_path |-> "", mimetype |-> "", handle |-> "none", hdata |-> <<>>,
             data |-> <<>>, pending |-> "", result |-> NoResult,
             nJoin |-> 0, nIsFile |-> 0, nOpen |-> 0, seen |-> Absent,
             raced |-> FALSE, ioFailed |-> FALSE]

Finish(tk, r) == [tk EXCEPT !.pc = "done", !.result = r]

\* the calling task is unchanged apart from tasks[t]
Others == <<links, cwd, join, env, comp, nAssign, fs, nFsOps>>

\* send_static_file, up to the call of send_from_directory
send_static_file(t, filename) ==
    /\ tasks[t].pc = "idle"
    /\ comp.state = "ready"
    /\ tasks' = [tasks EXCEPT ![t] =
          IF ~has_static_folder(comp)
          THEN Finish([@ EXCEPT !.api = "static", !.file_name = filename],
                      Raised("RuntimeError"))
          ELSE [@ EXCEPT !.api = "static", !.pc = "join",
                         !.directory = static_folder(comp).v,
                         !.file_name = filename]]
    /\ UNCHANGED Others

\* send_from_directory called directly
send_from_directory(t, directory, file_name) ==
    /\ tasks[t].pc = "idle"
    /\ tasks' = [tasks EXCEPT ![t] =
          [@ EXCEPT !.api = "directory", !.pc = "join",
                    !.directory = directory, !.file_name = file_name]]
    /\ UNCHANGED Others

\* send_from_directory: file_path = safe_join(directory, file_name)
Join(t) ==
    /\ tasks[t].pc = "join"
    /\ LET r == safe_join(tasks[t].directory, <<tasks[t].file_name>>)
       IN  tasks' = [tasks EXCEPT ![t] =
              IF r = NotFound
              THEN Finish([@ EXCEPT !.nJoin = @ + 1], Raised("NotFound"))
              ELSE [@ EXCEPT !.nJoin = @ + 1, !.file_path = r.path,
                             !.pc = "isfile"]]
    /\ UNCHANGED Others

\* send_from_directory: os.path.isfile; then send_file up to the open
IsFile(t) ==
    /\ tasks[t].pc = "isfile"
    /\ tasks' = [tasks EXCEPT ![t] =
          IF ~os_path_isfile(tasks[t].file_path)
          THEN Finish([@ EXCEPT !.nIsFile = @ + 1, !.seen = FsAt(tasks[t].file_path)],
                      Raised("NotFound"))
          ELSE [@ EXCEPT !.nIsFile = @ + 1, !.seen = FsAt(tasks[t].file_path),
                         !.mimetype = Mime(tasks[t].file_path),
                         !.pc = "open"]]
    /\ UNCHANGED Others

\* send_file: async_open(filename, mode='rb')
Open(t) ==
    /\ tasks[t].pc = "open"
    /\ LET f == FsAt(tasks[t].file_path)
       IN  tasks' = [tasks EXCEPT ![t] =
              IF f.kind = "file" /\ f.readable
              THEN [@ EXCEPT !.nOpen = @ + 1, !.handle = "open",
                             !.hdata = f.data, !.pc = "read"]
              ELSE Finish([@ EXCEPT !.nOpen = @ + 1, !.ioFailed = TRUE],
                          Raised(OpenFailure))]
    /\ UNCHANGED Others

\* send_file: data = await file_.read() completes
ReadOk(t) ==
    /\ tasks[t].pc = "read"
    /\ tasks' = [tasks EXCEPT ![t] =
          [@ EXCEPT !.data = tasks[t].hdata, !.pending = "return", !.pc = "exit"]]
    /\ UNCHANGED Others

\* send_file: the read raises an OSError
ReadError(t) ==
    /\ tasks[t].pc = "read"
    /\ tasks' = [tasks EXCEPT ![t] =
          [@ EXCEPT !.pending = "IOError", !.ioFailed = TRUE, !.pc = "exit"]]
    /\ UNCHANGED Others

\* the calling request is cancelled while the read is suspended
Cancel(t) ==
    /\ tasks[t].pc = "read"
    /\ tasks' = [tasks EXCEPT ![t] =
          [@ EXCEPT !.pending = "Cancelled", !.pc = "exit"]]
    /\ UNCHANGED Others

\* send_file: the async with block is left, then the call returns or raises
Exit(t) ==
    /\ tasks[t].pc = "exit"
    /\ tasks' = [tasks EXCEPT ![t] =
          Finish([@ EXCEPT !.handle = ExitHandle(tasks[t].pending)],
                 IF tasks[t].pending = "return"
                 THEN Response(tasks[t].data, tasks[t].mimetype)
                 ELSE Raised(tasks[t].pending))]
    /\ UNCHANGED Others

(***************************************************************************)
(* The concurrent actor: removes a file, replaces it by a new file (a      *)
(* rename onto the path, so that an open handle keeps the old content), or *)
(* makes it unreadable.  A task between its check and its open on that     *)
(* path is marked raced.                                                   *)
(***************************************************************************)
Race(p) ==
    [t \in Tasks |->
        IF tasks[t].pc = "open" /\ tasks[t].file_path = p
        THEN [tasks[t] EXCEPT !.raced = TRUE] ELSE tasks[t]]

FsUnlink(p) ==
    /\ nFsOps < MaxFsOps
    /\ FsAt(p).kind = "file"
    /\ fs' = [fs EXCEPT ![p] = Absent]
    /\ nFsOps' = nFsOps + 1
    /\ tasks' = Race(p)
    /\ UNCHANGED <<links, cwd, join, env, comp, nAssign>>

FsReplace(p, b) ==
    /\ nFsOps < MaxFsOps
    /\ FsAt(p).kind # "dir"
    /\ FsAt(p) # File(b)
    /\ fs' = [fs EXCEPT ![p] = File(b)]
    /\ nFsOps' = nFsOps + 1
    /\ tasks' = Race(p)
    /\ UNCHANGED <<links, cwd, join, env, comp, nAssign>>

FsChmod(p) ==
    /\ nFsOps < MaxFsOps
    /\ FsAt(p).kind = "file"
    /\ FsAt(p).readable
    /\ fs' = [fs EXCEPT ![p].readable = FALSE]
    /\ nFsOps' = nFsOps + 1
    /\ tasks' = Race(p)
    /\ UNCHANGED <<links, cwd, join, env, comp, nAssign>>

ServeDirs == {"/a/b"}
ServeFiles == {"present.html", "noext", "missing.txt", "sub", "../b-evil/x"}
HotPaths == {"/a/b/present.html"}
PageBytes == <<60, 104, 62>>
OtherBytes == <<0, 255>>
NewBytes == <<60, 112, 62>>

InitServe ==
    /\ links = {}
    /\ cwd = "/a"
    /\ join = NoJoin
    /\ env = [NoEnv EXCEPT !.import_name = "app", !.arg = Some("/a")]
    /\ \E sf \in {None, Some("b")} :
          comp = [NoComp EXCEPT !.state = "ready", !.root_path = "/a", !.root0 = "/a",
                                !._static_folder = sf, !.folderSet = sf.some]
    /\ nAssign = 0
    /\ fs = [p \in {"/a/b", "/a/b/present.html", "/a/b/noext", "/a/b/sub",
                    "/a/b-evil", "/a/b-evil/x"} |->
               IF p \in {"/a/b", "/a/b/sub", "/a/b-evil"} THEN Dir
               ELSE IF p = "/a/b/present.html" THEN File(PageBytes)
               ELSE File(OtherBytes)]
    /\ nFsOps = 0
    /\ tasks = [t \in Tasks |-> IdleTask]

Step(t) ==
    \/ \E f \in ServeFiles : send_static_file(t, f)
    \/ \E d \in ServeDirs, f \in ServeFiles : send_from_directory(t, d, f)
    \/ Join(t)
    \/ IsFile(t)
    \/ Open(t)
    \/ ReadOk(t)
    \/ ReadError(t)
    \/ Cancel(t)
    \/ Exit(t)

Actor ==
    \E p \in HotPaths :
        \/ FsUnlink(p)
        \/ FsReplace(p, NewBytes)
        \/ FsChmod(p)

Next ==
    \/ \E t \in Tasks : Step(t)
    \/ Actor

Spec == InitServe /\ [][Next]_vars

\* a started read ends (it completes, fails or is cancelled) and the block is
\* then left: the event loop resumes every task whose awaited operation ended
FairSpec ==
    /\ Spec
    /\ \A t \in Tasks : WF_vars(ReadOk(t) \/ ReadError(t) \/ Cancel(t))
    /\ \A t \in Tasks : WF_vars(Exit(t))

(***************************************************************************)
(* C4: send_static_file on a component whose static folder sub-path was    *)
(* never set signals a configuration error that is not NotFound, for every *)
(* filename, before any path join, existence check or file read.           *)
(***************************************************************************)
C4_NoStaticFolderIsConfigError ==
    \A t \in Tasks :
        (/\ tasks[t].api = "static"
         /\ ~comp.folderSet)
        => /\ tasks[t].pc = "done"
           /\ tasks[t].result = Raised("RuntimeError")
           /\ tasks[t].result.kind # "NotFound"
           /\ tasks[t].nJoin = 0
           /\ tasks[t].nIsFile = 0
           /\ tasks[t].nOpen = 0
           /\ tasks[t].handle = "none"

\* C4's case: both tasks called send_static_file on the unconfigured component
C4_Witness ==
    /\ ~comp.folderSet
    /\ \A t \in Tasks : tasks[t].api = "static" /\ tasks[t].pc = "done"
    /\ tasks["t1"].file_name = "present.html"
    /\ tasks["t2"].file_name = "../b-evil/x"

(***************************************************************************)
(* C5: send_from_directory signals NotFound, and never opens or reads any  *)
(* file, when the joined path escapes the directory, when the resolved     *)
(* path does not exist, and when it exists but is not a regular file.      *)
(***************************************************************************)
Escapes(tk) ==
    ~IsPrefixSeq(Components(Resolve(Path(<<tk.directory>>))),
                 Components(Resolve(Path(<<tk.directory, tk.file_name>>))))

C5_NotFoundCases ==
    \A t \in Tasks :
        (/\ tasks[t].nJoin = 1
         /\ \/ Escapes(tasks[t])
            \/ (tasks[t].nIsFile = 1 /\ tasks[t].seen.kind # "file"))
        => /\ tasks[t].pc = "done" => tasks[t].result = Raised("NotFound")
           /\ tasks[t].nOpen = 0
           /\ tasks[t].handle = "none"

(***************************************************************************)
(* C6: when directory/file_name resolves inside the directory to an        *)
(* existing regular file holding bytes B, and nothing disturbs the call    *)
(* (no change to the file between check and open, no read error, no        *)
(* cancellation), send_from_directory returns a response whose body is B   *)
(* and whose content type is the MIME lookup's result for the base name,   *)
(* or application/octet-stream when the lookup yields nothing.             *)
(***************************************************************************)
Undisturbed(tk) ==
    /\ tk.pc = "done"
    /\ tk.nIsFile = 1
    /\ tk.seen.kind = "file"
    /\ tk.seen.readable
    /\ ~tk.raced
    /\ tk.pending \notin {"IOError", "Cancelled"}

C6_ResponseBodyAndType ==
    \A t \in Tasks :
        (Undisturbed(tasks[t]) /\ ~Escapes(tasks[t]))
        => LET g == GuessType(os_path_basename(tasks[t].file_path))
           IN  /\ tasks[t].result.kind = "Response"
               /\ tasks[t].result.body = tasks[t].seen.data
               /\ tasks[t].result.mimetype =
                     (IF g = None THEN "application/octet-stream" ELSE g.v)

\* C6's case: present.html served as text/html and noext as octet-stream
C6_Witness ==
    /\ tasks["t1"].file_name = "present.html"
    /\ tasks["t1"].result = Response(PageBytes, "text/html")
    /\ tasks["t2"].file_name = "noext"
    /\ tasks["t2"].result = Response(OtherBytes, "application/octet-stream")

(***************************************************************************)
(* C7: if the file passes the regular-file check but the open or the read  *)
(* then fails, the call ends in an I/O error that is not NotFound: it is   *)
(* never turned into NotFound, never retried, never a success response.    *)
(***************************************************************************)
C7_IOErrorAfterCheck ==
    \A t \in Tasks :
        (/\ tasks[t].pc = "done"
         /\ tasks[t].nIsFile = 1
         /\ tasks[t].seen.kind = "file"
         /\ tasks[t].ioFailed)
        => /\ tasks[t].result.kind = "IOError"
           /\ tasks[t].result.kind \notin {"NotFound", "Response"}
           /\ tasks[t].nOpen = 1
           /\ tasks[t].nIsFile = 1
           /\ tasks[t].nJoin = 1

\* C7's case: the file vanished between a task's check and its open
C7_Witness ==
    \E t \in Tasks :
        /\ tasks[t].pc = "done"
        /\ tasks[t].seen = File(PageBytes)
        /\ tasks[t].raced
        /\ FsAt(tasks[t].file_path) = Absent
        /\ tasks[t].handle = "none"
        /\ tasks[t].result = Raised("IOError")

(***************************************************************************)
(* C8: every file handle send_file opens is eventually closed, after a     *)
(* successful read, after a read error and after a cancellation during     *)
(* the read; once all calls have finished no handle remains open.          *)
(***************************************************************************)
AllFinished == \A t \in Tasks : tasks[t].pc \in {"idle", "done"}
NoOpenHandle == \A t \in Tasks : tasks[t].handle # "open"

C8_HandlesClosed ==
    /\ \A t \in Tasks :
          (tasks[t].handle = "open") ~> (tasks[t].handle = "closed")
    /\ [](AllFinished => NoOpenHandle)

\* C8's case: one call cancelled during its read, one failed read, both closed
C8_Witness ==
    /\ AllFinished
    /\ tasks["t1"].result = Raised("Cancelled")
    /\ tasks["t2"].result = Raised("IOError")
    /\ tasks["t2"].nOpen = 1
    /\ \A t \in Tasks : tasks[t].handle = "closed"

====
